---------------------------- MODULE Spec2Model ----------------------------
(***************************************************************************)
(* Model of the Fastly service resource's create/update path:              *)
(*   resourceServiceV1Create, resourceServiceV1Update and validateVCLs.    *)
(* One run of the resource function is a sequence of steps; every backend  *)
(* call (conn.X) is one step whose outcome the backend chooses.            *)
(***************************************************************************)
EXTENDS Integers, Sequences, FiniteSets, TLC

VARIABLES
    op,              \* which resource function runs: "create" or "update"
    old,             \* prior state held by d (what GetChange returns as old)
    new,             \* desired configuration held by d (GetChange's new)
    active_version,  \* d's "active_version"
    id,              \* d.Id()
    latestVersion,   \* the local latestVersion of resourceServiceV1Update
    pc,              \* position of the run
    stage,           \* index in StageOrder of the collection being applied
    remove,          \* records of the current stage still to be deleted
    add,             \* records of the current stage still to be created
    pendingVCL,      \* name of the main VCL just created, awaiting ActivateVCL
    backend,         \* the remote service: name, versions, active version
    calls,           \* backend calls issued so far in this run, in order
    result,          \* what the resource function returned
    past,            \* calls and result of the earlier runs of a sequence
    otherRun         \* a second run on the same service, while suspended

vars == <<op, old, new, active_version, id, latestVersion, pc, stage, remove,
          add, pendingVCL, backend, calls, result, past, otherRun>>

\* what a single run of the resource function never touches
aux == <<past, otherRun>>

-----------------------------------------------------------------------------
(* Bounds of the model and constants of the program *)

\* largest number of records in one collection of the varied collection
MaxRecs == 2

\* the largest number of runs in a sequence of runs on one service
MaxRuns == 2

\* schema default of "default_ttl"
DefaultTTL == 3600

\* schema default of gcslogging "period" (and of the other optional fields)
DefaultPeriod == 3600

\* stored active_version values a run starts from
StartVersions == {0, 3}

-----------------------------------------------------------------------------
(* Collections and records *)

StageOrder_ConditionsLast ==
    << "domain", "healthcheck", "backend", "header", "gzip",
       "s3logging", "papertrail", "sumologic", "gcslogging",
       "response_object", "request_setting", "vcl", "cache_setting",
       "condition" >>

StageOrder_BackendsFirst ==
    << "condition", "domain", "backend", "healthcheck", "header", "gzip",
       "s3logging", "papertrail", "sumologic", "gcslogging",
       "response_object", "request_setting", "vcl", "cache_setting" >>

StageOrder_VCLLast ==
    << "condition", "domain", "healthcheck", "backend", "header", "gzip",
       "s3logging", "papertrail", "sumologic", "gcslogging",
       "response_object", "request_setting", "cache_setting", "vcl" >>

\* the order in which resourceServiceV1Update applies the collections
StageOrder ==
    << "condition", "domain", "healthcheck", "backend", "header", "gzip",
       "s3logging", "papertrail", "sumologic", "gcslogging",
       "response_object", "request_setting", "vcl", "cache_setting" >>

NumStages == Len(StageOrder)

Collections == { StageOrder[i] : i \in 1..NumStages }

StageIndex(c) == CHOOSE i \in 1..NumStages : StageOrder[i] = c

NeedsChangeKeys_WithName ==
    { "name", "domain", "backend", "default_host", "default_ttl", "header",
      "gzip", "healthcheck", "s3logging", "papertrail", "response_object",
      "condition", "request_setting", "cache_setting", "vcl" }

\* the attributes whose change makes resourceServiceV1Update obtain a version
NeedsChangeKeys ==
    { "domain", "backend", "default_host", "default_ttl", "header", "gzip",
      "healthcheck", "s3logging", "papertrail", "response_object",
      "condition", "request_setting", "cache_setting", "vcl" }

\* collections whose records carry a condition name
ConditionRefs ==
    { "backend", "header", "gzip", "s3logging", "papertrail", "sumologic",
      "gcslogging", "response_object", "request_setting", "cache_setting" }

\* collections whose Create is preceded by a local check of the record
LocalChecked == { "header", "s3logging", "request_setting", "cache_setting" }

\* A record of a collection.  val stands for the fields every Create passes
\* on, period for the optional period/path/gzip_level/timestamp_format
\* fields, cond and hc for the condition and healthcheck names the record
\* refers to, main for the VCL flag, ok for "the record passes the local
\* check of its stage" (S3 keys present, builder accepts the combination).
Rec(n, v, p, c, h, m, k) ==
    [name |-> n, val |-> v, period |-> p, cond |-> c, hc |-> h,
     main |-> m, ok |-> k]

NoRec == Rec("", 0, 0, "", "", FALSE, TRUE)

RecA == Rec("a", 80, DefaultPeriod, "", "", FALSE, TRUE)
RecA2 == Rec("a", 443, 60, "", "", FALSE, TRUE)

\* the record "b" of a collection: it names condition "a" (and healthcheck
\* "a" for a backend) where the collection has such fields
RecB(c) ==
    Rec("b", 80, DefaultPeriod,
        IF c \in ConditionRefs THEN "a" ELSE "",
        IF c = "backend" THEN "a" ELSE "",
        FALSE, TRUE)

Universe(c) ==
    IF c = "vcl"
    THEN { Rec("a", 80, DefaultPeriod, "", "", TRUE, TRUE),
           Rec("a", 443, DefaultPeriod, "", "", TRUE, TRUE),
           Rec("b", 80, DefaultPeriod, "", "", FALSE, TRUE),
           Rec("b", 80, DefaultPeriod, "", "", TRUE, TRUE) }
    ELSE {RecA, RecA2, RecB(c)}
         \cup (IF c \in LocalChecked
               THEN {Rec("b", 80, DefaultPeriod, "", "", FALSE, FALSE)}
               ELSE {})

UniqueNames(S) == \A r, s \in S : r.name = s.name => r = s

RecordSets(c) ==
    { S \in SUBSET Universe(c) : Cardinality(S) <= MaxRecs /\ UniqueNames(S) }


-----------------------------------------------------------------------------
(* The runs the model starts from *)

\* "domain" is a required attribute: it always holds a record
BaseColls == [c \in Collections |-> IF c = "domain" THEN {RecA} ELSE {}]

\* old and new records of the collection a run varies freely
PrimaryPairs(p) ==
    { pr \in RecordSets(p) \X RecordSets(p) :
        p = "domain" => (pr[1] # {} /\ pr[2] # {}) }

\* the record a second collection adds, removes or keeps
SecondaryRec(s) ==
    IF s = "vcl" THEN Rec("a", 80, DefaultPeriod, "", "", TRUE, TRUE)
    ELSE IF s \in {"condition", "healthcheck"} THEN RecA
    ELSE RecB(s)

\* old and new records of a second, later collection: one record added,
\* removed or kept
SecondaryPairs(s) ==
    IF s = "domain"
    THEN { <<{RecA}, {RecA, RecB(s)}>>, <<{RecA, RecB(s)}, {RecA}>>,
           <<{RecA, RecB(s)}, {RecA, RecB(s)}>> }
    ELSE { <<{}, {SecondaryRec(s)}>>, <<{SecondaryRec(s)}, {}>>,
           <<{SecondaryRec(s)}, {SecondaryRec(s)}>> }

\* what else differs beside the varied collection: nothing, one service
\* attribute, or a later collection
SecondaryOptions(p) ==
    { [kind |-> k, coll |-> p, pair |-> <<{}, {}>>] :
        k \in {"none", "name", "default_host", "default_ttl"} }
    \cup
    UNION { { [kind |-> "coll", coll |-> s, pair |-> pr] :
                pr \in SecondaryPairs(s) } :
            s \in { c \in Collections : StageIndex(c) > StageIndex(p) } }

CollsOf(p, pset, q, qset) ==
    [c \in Collections |->
        IF c = p THEN pset
        ELSE IF q.kind = "coll" /\ c = q.coll THEN qset
        ELSE BaseColls[c]]

OldState(p, pr, q, n) ==
    [name |-> "n1", default_host |-> "", default_ttl |-> DefaultTTL,
     colls |-> CollsOf(p, pr[1], q, q.pair[1]), active_version |-> n]

NewState(p, pr, q) ==
    [name |-> IF q.kind = "name" THEN "n2" ELSE "n1",
     default_host |-> IF q.kind = "default_host" THEN "h" ELSE "",
     default_ttl |-> IF q.kind = "default_ttl" THEN 60 ELSE DefaultTTL,
     colls |-> CollsOf(p, pr[2], q, q.pair[2])]

\* the state of d for a resource that does not exist yet
ZeroState ==
    [name |-> "", default_host |-> "", default_ttl |-> 0,
     colls |-> [c \in Collections |-> {}], active_version |-> 0]

\* one version of the remote service
Version(colls, host, ttl, locked) ==
    [colls |-> colls, default_host |-> host, default_ttl |-> ttl,
     locked |-> locked]

\* the remote service of a resource whose stored active_version is n: its
\* latest version holds the prior state; it is locked once activated
ExistingBackend(o, n) ==
    [exists |-> TRUE, name |-> o.name, active |-> n,
     versions |-> [i \in 1..(IF n = 0 THEN 1 ELSE n) |->
                     Version(o.colls, o.default_host, o.default_ttl, n # 0)]]

NoBackend == [exists |-> FALSE, name |-> "", active |-> 0, versions |-> <<>>]

\* no second run
NoRun == [pc |-> "none"]

InitCommon ==
    /\ latestVersion = 0
    /\ stage = 0
    /\ remove = {}
    /\ add = {}
    /\ pendingVCL = ""
    /\ calls = <<>>
    /\ result = "running"
    /\ past = <<>>

InitUpdate ==
    /\ otherRun = NoRun
    /\ \E p \in Collections :
       \E pr \in PrimaryPairs(p), q \in SecondaryOptions(p), n \in StartVersions :
         /\ op = "update"
         /\ old = OldState(p, pr, q, n)
         /\ new = NewState(p, pr, q)
         /\ active_version = n
         /\ id = "svc"
         /\ pc = "Update"
         /\ backend = ExistingBackend(old, n)
         /\ InitCommon

InitCreate ==
    /\ otherRun = NoRun
    /\ \E p \in Collections :
       \E pr \in PrimaryPairs(p), q \in SecondaryOptions(p) :
         /\ op = "create"
         /\ old = ZeroState
         /\ new = NewState(p, pr, q)
         /\ active_version = 0
         /\ id = ""
         /\ pc = "Create"
         /\ backend = NoBackend
         /\ InitCommon

Init == InitUpdate \/ InitCreate

-----------------------------------------------------------------------------
(* The pure parts of the resource functions *)

validateVCLs_NoMainCheck(vcls) ==
    LET numberOfMainVCLs == Cardinality({ v \in vcls : v.main })
    IN  IF vcls = {} THEN "nil"
        ELSE IF numberOfMainVCLs > 1 THEN "err_vcl_many_main"
        ELSE "nil"

validateVCLs_Accept(vcls) == "nil"

\* validateVCLs: d.GetOk("vcl") reports an empty set as absent; otherwise the
\* records are counted by their main flag
validateVCLs(vcls) ==
    LET exists == vcls # {}
        numberOfMainVCLs == Cardinality({ v \in vcls : v.main })
        numberOfIncludeVCLs == Cardinality({ v \in vcls : ~v.main })
    IN  IF ~exists THEN "nil"
        ELSE IF numberOfMainVCLs = 0 /\ numberOfIncludeVCLs > 0
             THEN "err_vcl_no_main"
        ELSE IF numberOfMainVCLs > 1 THEN "err_vcl_many_main"
        ELSE "nil"

\* d.HasChange(k): the old and new values of attribute k differ
HasChange(k) ==
    IF k \in Collections THEN old.colls[k] # new.colls[k] ELSE old[k] # new[k]

needsChange_Always == TRUE

\* the needsChange loop of resourceServiceV1Update
needsChange == \E v \in NeedsChangeKeys : HasChange(v)

Difference_ByName(s, other) ==
    { r \in s : r.name \notin { o.name : o \in other } }

Difference_Symmetric(s, other) == (s \ other) \cup (other \ s)

\* schema.Set.Difference: the elements of s that are not, as whole values,
\* elements of other
Difference(s, other) == s \ other

settingsChanged_HostOnly == HasChange("default_host")

\* the condition of the "update general settings" block
settingsChanged == HasChange("default_host") \/ HasChange("default_ttl")

deleteFailed_Ignored(ok) == FALSE

\* err != nil after a Delete call of a stage
deleteFailed(ok) == ~ok

cloneSource_Newest == Len(backend.versions)

\* latestVersion := d.Get("active_version"), the version CloneVersion copies
cloneSource == active_version

clonedVersion_Stale(number, current) == current

\* latestVersion = newVersion.Number
clonedVersion(number, current) == number

createFailed_Ignored(ok) == FALSE

\* "if err != nil { return err }" after conn.CreateService
createFailed(ok) == ~ok

Rest_Same(S, r) == S

\* a "for ... range" loop over a difference set takes each record once
Rest(S, r) == S \ {r}

cloneFailed_Ignored(ok) == FALSE

\* err != nil after conn.CloneVersion
cloneFailed(ok) == ~ok

isMainVCL_Always(c, r) == c = "vcl"

\* df["main"].(bool) in the POST loop of the VCL stage
isMainVCL(c, r) == c = "vcl" /\ r.main

renameNeeded_Never == FALSE

\* the condition of the rename block
renameNeeded == HasChange("name")

NextChanged_Every(k) == IF k <= NumStages THEN k ELSE NumStages + 1

\* the first collection at or after position k whose attribute changed;
\* NumStages + 1 when there is none
NextChanged(k) ==
    IF \E i \in k..NumStages : HasChange(StageOrder[i])
    THEN CHOOSE i \in k..NumStages :
            /\ HasChange(StageOrder[i])
            /\ \A j \in k..(i - 1) : ~HasChange(StageOrder[j])
    ELSE NumStages + 1

\* the check of the S3 stage: both keys must be non-empty
S3KeysPresent(r) == r.ok

\* buildHeader, buildRequestSetting, buildCacheSetting: reject a record whose
\* field combination is inconsistent
BuilderAccepts(r) == r.ok

\* record r names a condition or a healthcheck that the new desired state
\* does not hold
Dangles(r) ==
    \/ r.cond # "" /\ r.cond \notin { x.name : x \in new.colls["condition"] }
    \/ r.hc # "" /\ r.hc \notin { x.name : x \in new.colls["healthcheck"] }

LocalCheckPasses_References(c, r) ==
    /\ ~Dangles(r)
    /\ IF c = "s3logging" THEN S3KeysPresent(r)
       ELSE IF c \in {"header", "request_setting", "cache_setting"}
            THEN BuilderAccepts(r)
       ELSE TRUE

\* the local check a stage makes on a record before its Create call
LocalCheckPasses(c, r) ==
    IF c = "s3logging" THEN S3KeysPresent(r)
    ELSE IF c \in {"header", "request_setting", "cache_setting"}
         THEN BuilderAccepts(r)
    ELSE TRUE

\* the record a Create call of collection c hands to the backend: the GCS
\* input carries no path/gzip_level/period/timestamp_format, the VCL input
\* no main flag
CreateInput(c, r) ==
    IF c = "gcslogging" THEN [r EXCEPT !.period = DefaultPeriod]
    ELSE IF c = "vcl" THEN [r EXCEPT !.main = FALSE]
    ELSE r

CanCreate_Early(rem, ad) == ad # {}

\* a stage issues its Create calls after its loop of Delete calls has ended
CanCreate(rem, ad) == rem = {} /\ ad # {}

AfterValidate_Retry(outcome) ==
    IF outcome = "valid" THEN "ActivateVersion"
    ELSE IF outcome = "error" THEN "ValidateVersion"
    ELSE "done"

AfterValidate_Unchecked(outcome) ==
    IF outcome = "error" THEN "done" ELSE "ActivateVersion"

\* where the run goes after ValidateVersion returned
AfterValidate(outcome) ==
    IF outcome = "valid" THEN "ActivateVersion" ELSE "done"

StoredVersion_Never(ok, current, working) == current

StoredVersion_Eager(ok, current, working) == working

\* the active_version d holds after the ActivateVersion call returned
StoredVersion(ok, current, working) == IF ok THEN working ELSE current

\* the error resourceServiceV1Update returns for a ValidateVersion outcome
ValidateError(outcome) ==
    IF outcome = "error" THEN "err_checking_validation"
    ELSE "err_invalid_configuration"

-----------------------------------------------------------------------------
(* The backend *)

\* how a call that succeeds or fails is logged
Res(ok) == IF ok THEN "ok" ELSE "fail"

Call(o, c, n, v, r, rec) ==
    [op |-> o, coll |-> c, name |-> n, version |-> v, res |-> r, rec |-> rec]

\* a draft version can be changed; a locked or missing one cannot
Mutable(v) ==
    /\ backend.exists
    /\ v \in 1..Len(backend.versions)
    /\ ~backend.versions[v].locked

NamesIn(v, c) == { r.name : r \in backend.versions[v].colls[c] }

\* outcomes the backend can give to a call that it could accept
Outcomes(acceptable) == IF acceptable THEN {TRUE, FALSE} ELSE {FALSE}

WithColl(v, c, S) ==
    [backend EXCEPT !.versions[v].colls[c] = S]

-----------------------------------------------------------------------------
(* The steps of resourceServiceV1Create and resourceServiceV1Update *)

Return(e) == pc' = "done" /\ result' = e

\* go to the stage of the first changed collection at or after position k,
\* computing its two differences; with none left, go on to validation
EnterStage(k) ==
    LET n == NextChanged(k)
    IN  /\ stage' = n
        /\ IF n > NumStages
           THEN /\ pc' = "ValidateVersion"
                /\ remove' = {}
                /\ add' = {}
           ELSE /\ pc' = "Stage"
                /\ remove' = Difference(old.colls[StageOrder[n]],
                                        new.colls[StageOrder[n]])
                /\ add' = Difference(new.colls[StageOrder[n]],
                                     old.colls[StageOrder[n]])

\* the run has its working version: settings first when they changed
AfterVersion ==
    IF settingsChanged
    THEN pc' = "UpdateSettings" /\ UNCHANGED <<stage, remove, add>>
    ELSE EnterStage(1)

\* resourceServiceV1Create up to its CreateService call
Create ==
    /\ pc = "Create"
    /\ LET e == validateVCLs(new.colls["vcl"])
       IN  IF e # "nil" THEN Return(e)
           ELSE pc' = "CreateService" /\ result' = result
    /\ UNCHANGED <<op, old, new, active_version, id, latestVersion, stage,
                   remove, add, pendingVCL, backend, calls>>
    /\ UNCHANGED aux

\* conn.CreateService, d.SetId, and the entry into resourceServiceV1Update
CreateService ==
    /\ pc = "CreateService"
    /\ \E ok \in Outcomes(~backend.exists) :
        /\ calls' = Append(calls,
                       Call("CreateService", "", new.name, 0, Res(ok), NoRec))
        /\ backend' =
             IF ok
             THEN [exists |-> TRUE, name |-> new.name, active |-> 0,
                   versions |-> << Version(ZeroState.colls, "",
                                           DefaultTTL, FALSE) >>]
             ELSE backend
        /\ IF createFailed(ok)
           THEN /\ Return("err_backend")
                /\ UNCHANGED id
           ELSE /\ id' = "svc"
                /\ pc' = "Update"
                /\ result' = result
    /\ UNCHANGED <<op, old, new, active_version, latestVersion, stage, remove,
                   add, pendingVCL>>
    /\ UNCHANGED aux

\* resourceServiceV1Update up to its first backend call
Update ==
    /\ pc = "Update"
    /\ LET e == validateVCLs(new.colls["vcl"])
       IN  IF e # "nil" THEN Return(e)
           ELSE /\ pc' = IF renameNeeded THEN "UpdateService"
                         ELSE "needsChange"
                /\ result' = result
    /\ UNCHANGED <<op, old, new, active_version, id, latestVersion, stage,
                   remove, add, pendingVCL, backend, calls>>
    /\ UNCHANGED aux

\* conn.UpdateService: the rename
UpdateService ==
    /\ pc = "UpdateService"
    /\ \E ok \in Outcomes(backend.exists) :
        /\ calls' = Append(calls,
                       Call("UpdateService", "", new.name, 0, Res(ok), NoRec))
        /\ IF ok
           THEN /\ backend' = [backend EXCEPT !.name = new.name]
                /\ pc' = "needsChange"
                /\ result' = result
           ELSE /\ Return("err_backend")
                /\ UNCHANGED backend
    /\ UNCHANGED <<op, old, new, active_version, id, latestVersion, stage,
                   remove, add, pendingVCL>>
    /\ UNCHANGED aux

\* the needsChange loop and the choice of the working version
ObtainVersion ==
    /\ pc = "needsChange"
    /\ IF ~needsChange
       THEN /\ pc' = "Read"
            /\ UNCHANGED <<latestVersion, stage, remove, add>>
       ELSE IF active_version = 0
       THEN /\ latestVersion' = 1
            /\ AfterVersion
       ELSE /\ latestVersion' = cloneSource
            /\ pc' = "CloneVersion"
            /\ UNCHANGED <<stage, remove, add>>
    /\ UNCHANGED <<op, old, new, active_version, id, pendingVCL, backend,
                   calls, result>>
    /\ UNCHANGED aux

\* conn.CloneVersion and the sleep that follows it
CloneVersion ==
    /\ pc = "CloneVersion"
    /\ \E ok \in Outcomes(backend.exists
                          /\ latestVersion \in 1..Len(backend.versions)) :
        /\ calls' = Append(calls,
                       Call("CloneVersion", "", "", latestVersion, Res(ok), NoRec))
        /\ backend' =
             IF ok
             THEN [backend EXCEPT !.versions =
                     Append(@, [@[latestVersion] EXCEPT !.locked = FALSE])]
             ELSE backend
        /\ IF cloneFailed(ok)
           THEN /\ Return("err_backend")
                /\ UNCHANGED <<latestVersion, stage, remove, add>>
           ELSE /\ latestVersion' =
                     IF ok THEN clonedVersion(Len(backend.versions) + 1,
                                              latestVersion)
                     ELSE latestVersion
                /\ AfterVersion
                /\ result' = result
    /\ UNCHANGED <<op, old, new, active_version, id, pendingVCL>>
    /\ UNCHANGED aux

\* conn.UpdateSettings: default_ttl always, default_host when it is set
UpdateSettings ==
    /\ pc = "UpdateSettings"
    /\ \E ok \in Outcomes(Mutable(latestVersion)) :
        /\ calls' = Append(calls,
                       Call("UpdateSettings", "", new.default_host,
                            latestVersion, Res(ok), NoRec))
        /\ IF ok
           THEN /\ backend' =
                     [backend EXCEPT
                        !.versions[latestVersion].default_ttl = new.default_ttl,
                        !.versions[latestVersion].default_host =
                            IF new.default_host # "" THEN new.default_host
                            ELSE @]
                /\ EnterStage(1)
                /\ result' = result
           ELSE /\ Return("err_backend")
                /\ UNCHANGED <<backend, stage, remove, add>>
    /\ UNCHANGED <<op, old, new, active_version, id, latestVersion,
                   pendingVCL>>
    /\ UNCHANGED aux

\* one turn of a stage's loop of Delete calls
DeleteRecord ==
    /\ pc = "Stage"
    /\ remove # {}
    /\ \E r \in remove :
        LET c == StageOrder[stage]
        IN  \E ok \in Outcomes(Mutable(latestVersion)
                               /\ r.name \in NamesIn(latestVersion, c)) :
              /\ calls' = Append(calls,
                             Call("Delete", c, r.name, latestVersion, Res(ok), NoRec))
              /\ backend' =
                   IF ok
                   THEN WithColl(latestVersion, c,
                                 { x \in backend.versions[latestVersion].colls[c] :
                                     x.name # r.name })
                   ELSE backend
              /\ IF deleteFailed(ok)
                 THEN /\ Return("err_backend")
                      /\ UNCHANGED <<stage, remove, add>>
                 ELSE /\ result' = result
                      /\ IF remove = {r} /\ add = {}
                         THEN EnterStage(stage + 1)
                         ELSE /\ remove' = Rest(remove, r)
                              /\ UNCHANGED <<pc, stage, add>>
    /\ UNCHANGED <<op, old, new, active_version, id, latestVersion,
                   pendingVCL>>
    /\ UNCHANGED aux

\* one turn of a stage's loop of Create calls: the local check of the
\* record, then the call; a created main VCL is activated next
CreateRecord ==
    /\ pc = "Stage"
    /\ CanCreate(remove, add)
    /\ \E r \in add :
        LET c == StageOrder[stage]
        IN  IF ~LocalCheckPasses(c, r)
            THEN /\ Return("err_config")
                 /\ UNCHANGED <<backend, calls, stage, remove, add, pendingVCL>>
            ELSE \E ok \in Outcomes(Mutable(latestVersion)
                                    /\ r.name \notin NamesIn(latestVersion, c)) :
                  /\ calls' = Append(calls,
                                 Call("Create", c, r.name, latestVersion, Res(ok),
                                      CreateInput(c, r)))
                  /\ IF ok
                     THEN /\ backend' =
                               WithColl(latestVersion, c,
                                        backend.versions[latestVersion].colls[c]
                                          \cup {CreateInput(c, r)})
                          /\ result' = result
                          /\ IF isMainVCL(c, r)
                             THEN /\ pc' = "ActivateVCL"
                                  /\ pendingVCL' = r.name
                                  /\ add' = Rest(add, r)
                                  /\ UNCHANGED <<stage, remove>>
                             ELSE /\ pendingVCL' = pendingVCL
                                  /\ IF add = {r}
                                     THEN EnterStage(stage + 1)
                                     ELSE /\ add' = Rest(add, r)
                                          /\ UNCHANGED <<pc, stage, remove>>
                     ELSE /\ Return("err_backend")
                          /\ UNCHANGED <<backend, stage, remove, add, pendingVCL>>
    /\ UNCHANGED <<op, old, new, active_version, id, latestVersion>>
    /\ UNCHANGED aux

\* conn.ActivateVCL for the main VCL just created
ActivateVCL ==
    /\ pc = "ActivateVCL"
    /\ \E ok \in Outcomes(Mutable(latestVersion)
                          /\ pendingVCL \in NamesIn(latestVersion, "vcl")) :
        /\ calls' = Append(calls,
                       Call("ActivateVCL", "vcl", pendingVCL, latestVersion,
                            Res(ok), NoRec))
        /\ IF ok
           THEN /\ backend' =
                     WithColl(latestVersion, "vcl",
                              { [x EXCEPT !.main = (x.name = pendingVCL)] :
                                  x \in backend.versions[latestVersion].colls["vcl"] })
                /\ result' = result
                /\ pendingVCL' = ""
                /\ IF add = {}
                   THEN EnterStage(stage + 1)
                   ELSE /\ pc' = "Stage"
                        /\ UNCHANGED <<stage, remove, add>>
           ELSE /\ Return("err_backend")
                /\ UNCHANGED <<backend, stage, remove, add, pendingVCL>>
    /\ UNCHANGED <<op, old, new, active_version, id, latestVersion>>
    /\ UNCHANGED aux

\* conn.ValidateVersion and the two checks of what it returned
ValidateVersion ==
    /\ pc = "ValidateVersion"
    /\ \E outcome \in {"valid", "invalid", "error"} :
        /\ calls' = Append(calls,
                       Call("ValidateVersion", "", "", latestVersion,
                            outcome, NoRec))
        /\ pc' = AfterValidate(outcome)
        /\ result' = IF pc' = "done" THEN ValidateError(outcome) ELSE result
    /\ UNCHANGED <<op, old, new, active_version, id, latestVersion, stage,
                   remove, add, pendingVCL, backend>>
    /\ UNCHANGED aux

\* conn.ActivateVersion and d.Set("active_version", latestVersion)
ActivateVersion ==
    /\ pc = "ActivateVersion"
    /\ \E ok \in Outcomes(Mutable(latestVersion)) :
        /\ calls' = Append(calls,
                       Call("ActivateVersion", "", "", latestVersion, Res(ok), NoRec))
        /\ active_version' = StoredVersion(ok, active_version, latestVersion)
        /\ IF ok
           THEN /\ backend' = [backend EXCEPT
                                 !.active = latestVersion,
                                 !.versions[latestVersion].locked = TRUE]
                /\ pc' = "Read"
                /\ result' = result
           ELSE /\ Return("err_activating")
                /\ UNCHANGED backend
    /\ UNCHANGED <<op, old, new, id, latestVersion, stage, remove, add,
                   pendingVCL>>
    /\ UNCHANGED aux

\* return resourceServiceV1Read(d, meta)
Read ==
    /\ pc = "Read"
    /\ \E ok \in BOOLEAN : Return(IF ok THEN "ok" ELSE "err_read")
    /\ UNCHANGED <<op, old, new, active_version, id, latestVersion, stage,
                   remove, add, pendingVCL, backend, calls>>
    /\ UNCHANGED aux

Next ==
    \/ Create
    \/ CreateService
    \/ Update
    \/ UpdateService
    \/ ObtainVersion
    \/ CloneVersion
    \/ UpdateSettings
    \/ DeleteRecord
    \/ CreateRecord
    \/ ActivateVCL
    \/ ValidateVersion
    \/ ActivateVersion
    \/ Read

Spec == Init /\ [][Next]_vars

-----------------------------------------------------------------------------
(* Runs of resourceServiceV1Update one after the other on one service *)

\* the collections that are varied in a sequence of runs
RunCollections == {"backend", "vcl"}

\* what else differs in the first run of a sequence
RunOptions(p) ==
    { [kind |-> k, coll |-> p, pair |-> <<{}, {}>>] :
        k \in {"none", "name", "default_ttl"} }

InitRuns ==
    /\ otherRun = NoRun
    /\ \E p \in RunCollections :
       \E pr \in PrimaryPairs(p), q \in RunOptions(p), n \in StartVersions :
         /\ op = "update"
         /\ old = OldState(p, pr, q, n)
         /\ new = NewState(p, pr, q)
         /\ active_version = n
         /\ id = "svc"
         /\ pc = "Update"
         /\ backend = ExistingBackend(old, n)
         /\ InitCommon

\* the prior state the next run finds in d: after a success the desired
\* state that was applied, after an error the prior state as it was; in
\* both cases with the active_version that d holds
StoredState ==
    IF result = "ok"
    THEN [name |-> new.name, default_host |-> new.default_host,
          default_ttl |-> new.default_ttl, colls |-> new.colls,
          active_version |-> active_version]
    ELSE [old EXCEPT !.active_version = active_version]

\* the desired state of the next run: after a success the configuration is
\* changed back to what it was, after an error the same one is applied again
NextDesired ==
    IF result = "ok"
    THEN [name |-> old.name, default_host |-> old.default_host,
          default_ttl |-> old.default_ttl, colls |-> old.colls]
    ELSE new

\* the host calls resourceServiceV1Update again once the run has returned
NextRun ==
    /\ pc = "done"
    /\ otherRun = NoRun
    /\ Len(past) < MaxRuns - 1
    /\ past' = Append(past, [calls |-> calls, result |-> result])
    /\ old' = StoredState
    /\ new' = NextDesired
    /\ op' = "update"
    /\ pc' = "Update"
    /\ latestVersion' = 0
    /\ stage' = 0
    /\ remove' = {}
    /\ add' = {}
    /\ pendingVCL' = ""
    /\ calls' = <<>>
    /\ result' = "running"
    /\ UNCHANGED <<active_version, id, backend, otherRun>>

NextRuns ==
    \/ Update
    \/ UpdateService
    \/ ObtainVersion
    \/ CloneVersion
    \/ UpdateSettings
    \/ DeleteRecord
    \/ CreateRecord
    \/ ActivateVCL
    \/ ValidateVersion
    \/ ActivateVersion
    \/ Read
    \/ NextRun

SpecRuns == InitRuns /\ [][NextRuns]_vars

\* the runs that the termination of the function is checked on: one
\* collection varied, alone or with one service attribute, as an update of
\* an existing service and as the creation of a new one
InitFair ==
    /\ otherRun = NoRun
    /\ \E p \in Collections :
       \E pr \in PrimaryPairs(p), q \in RunOptions(p) :
         /\ new = NewState(p, pr, q)
         /\ InitCommon
         /\ \/ \E n \in StartVersions :
                  /\ op = "update"
                  /\ old = OldState(p, pr, q, n)
                  /\ active_version = n
                  /\ id = "svc"
                  /\ pc = "Update"
                  /\ backend = ExistingBackend(old, n)
            \/ /\ op = "create"
               /\ old = ZeroState
               /\ active_version = 0
               /\ id = ""
               /\ pc = "Create"
               /\ backend = NoBackend

\* a run goes on while it has a step to take: the function is sequential
\* code and every backend call returns, with success or with an error
SpecFair == InitFair /\ [][Next]_vars /\ WF_vars(Next)

-----------------------------------------------------------------------------
(* Two runs of resourceServiceV1Update interleaved on one service *)

\* what one run holds of its own: its d and its local variables
RunContext ==
    [new |-> new, active_version |-> active_version,
     latestVersion |-> latestVersion, pc |-> pc, stage |-> stage,
     remove |-> remove, add |-> add, pendingVCL |-> pendingVCL,
     calls |-> calls, result |-> result]

\* the run at its start, with desired state n and stored active_version v
StartContext(n, v) ==
    [new |-> n, active_version |-> v, latestVersion |-> 0, pc |-> "Update",
     stage |-> 0, remove |-> {}, add |-> {}, pendingVCL |-> "",
     calls |-> <<>>, result |-> "running"]

\* the prior state both runs start from
RaceOld ==
    OldState("backend", <<{RecA}, {RecA}>>,
             [kind |-> "none", coll |-> "backend", pair |-> <<{}, {}>>], 3)

\* the desired states of the two runs: a changed backend record, an added
\* main VCL, a new name, a new default_ttl
RaceNews ==
    { NewState("backend", <<{RecA}, {RecA2}>>,
               [kind |-> "none", coll |-> "backend", pair |-> <<{}, {}>>]),
      NewState("backend", <<{RecA}, {RecA}>>,
               [kind |-> "coll", coll |-> "vcl",
                pair |-> <<{}, {SecondaryRec("vcl")}>>]),
      NewState("backend", <<{RecA}, {RecA}>>,
               [kind |-> "name", coll |-> "backend", pair |-> <<{}, {}>>]),
      NewState("backend", <<{RecA}, {RecA}>>,
               [kind |-> "default_ttl", coll |-> "backend",
                pair |-> <<{}, {}>>]) }

InitRace ==
    \E n1 \in RaceNews, n2 \in RaceNews :
        /\ op = "update"
        /\ old = RaceOld
        /\ new = n1
        /\ active_version = RaceOld.active_version
        /\ id = "svc"
        /\ pc = "Update"
        /\ backend = ExistingBackend(RaceOld, RaceOld.active_version)
        /\ otherRun = StartContext(n2, RaceOld.active_version)
        /\ InitCommon

\* the scheduler suspends the running call and lets the other one go on
Switch ==
    /\ otherRun # NoRun
    /\ otherRun' = RunContext
    /\ new' = otherRun.new
    /\ active_version' = otherRun.active_version
    /\ latestVersion' = otherRun.latestVersion
    /\ pc' = otherRun.pc
    /\ stage' = otherRun.stage
    /\ remove' = otherRun.remove
    /\ add' = otherRun.add
    /\ pendingVCL' = otherRun.pendingVCL
    /\ calls' = otherRun.calls
    /\ result' = otherRun.result
    /\ UNCHANGED <<op, old, id, backend, past>>

NextRace ==
    \/ Update
    \/ UpdateService
    \/ ObtainVersion
    \/ CloneVersion
    \/ UpdateSettings
    \/ DeleteRecord
    \/ CreateRecord
    \/ ActivateVCL
    \/ ValidateVersion
    \/ ActivateVersion
    \/ Read
    \/ Switch

SpecRace == InitRace /\ [][NextRace]_vars

-----------------------------------------------------------------------------
(* Vocabulary of the properties *)

CallIdx == 1..Len(calls)

Issued(o) == { i \in CallIdx : calls[i].op = o }

StageCalls == { i \in CallIdx : calls[i].op \in {"Create", "Delete"} }

\* a backend call of the run returned an error
FailedCalls == { i \in CallIdx : calls[i].res \in {"fail", "error"} }

\* the order of the collections as the documentation of the engine gives it:
\* conditions, domains, healthchecks, backends, headers, gzip, S3, Papertrail,
\* Sumologic, GCS, response objects, request settings, VCL, cache settings
DocumentedRank(c) ==
    CASE c = "condition" -> 1
      [] c = "domain" -> 2
      [] c = "healthcheck" -> 3
      [] c = "backend" -> 4
      [] c = "header" -> 5
      [] c = "gzip" -> 6
      [] c = "s3logging" -> 7
      [] c = "papertrail" -> 8
      [] c = "sumologic" -> 9
      [] c = "gcslogging" -> 10
      [] c = "response_object" -> 11
      [] c = "request_setting" -> 12
      [] c = "vcl" -> 13
      [] c = "cache_setting" -> 14

ToRemove(c) == old.colls[c] \ new.colls[c]

ToAdd(c) == new.colls[c] \ old.colls[c]

MainVCLs == { v \in new.colls["vcl"] : v.main }

\* the new VCL set breaks the rule "non-empty means exactly one main"
VCLInvalid == new.colls["vcl"] # {} /\ Cardinality(MainVCLs) # 1

VCLErrors == {"err_vcl_no_main", "err_vcl_many_main"}

\* the first validateVCLs of the run has returned
ValidatedVCLs == pc # "Create" /\ ~(op = "update" /\ pc = "Update")

ChangedAttributes ==
    { k \in Collections \cup {"name", "default_host", "default_ttl"} :
        IF k \in Collections THEN old.colls[k] # new.colls[k]
        ELSE old[k] # new[k] }

\* the run is in, or has left, the stage of collection c
StageEntered(c) ==
    /\ latestVersion > 0
    /\ old.colls[c] # new.colls[c]
    /\ stage >= DocumentedRank(c)

\* the stage of collection c ran to its end
StageCompleted(c) ==
    /\ latestVersion > 0
    /\ old.colls[c] # new.colls[c]
    /\ stage > DocumentedRank(c)

DeletesOf(c, n) ==
    { i \in CallIdx : calls[i].op = "Delete" /\ calls[i].coll = c
                      /\ calls[i].name = n }

CreatesOf(c, n) ==
    { i \in CallIdx : calls[i].op = "Create" /\ calls[i].coll = c
                      /\ calls[i].name = n }

\* one Delete per record of toRemove and one Create per record of toAdd
OneCallPerRecord(c) ==
    /\ \A r \in ToRemove(c) : Cardinality(DeletesOf(c, r.name)) = 1
    /\ \A r \in ToAdd(c) : Cardinality(CreatesOf(c, r.name)) = 1
    /\ Cardinality({ i \in StageCalls : calls[i].coll = c })
         = Cardinality(ToRemove(c)) + Cardinality(ToAdd(c))

Names(S) == { r.name : r \in S }

\* the names that stay in collection c while a field of their record changes
ReplacedNames(c) == Names(ToRemove(c)) \cap Names(ToAdd(c))

\* the run has just computed the two differences of collection c and has
\* issued no call for it yet
AtStageEntry(c) ==
    /\ pc = "Stage"
    /\ DocumentedRank(c) = stage
    /\ \A i \in CallIdx : calls[i].coll # c

\* the calls that change something at the backend
MutatingOps ==
    { "CreateService", "UpdateService", "CloneVersion", "UpdateSettings",
      "Create", "Delete", "ActivateVCL", "ActivateVersion" }

\* the calls resourceServiceV1Create and resourceServiceV1Update can issue
KnownOps == MutatingOps \cup {"ValidateVersion"}

\* default_host or default_ttl differs between the old and the new state
SettingsDiffer ==
    old.default_host # new.default_host \/ old.default_ttl # new.default_ttl

\* some attribute that lives in a version differs
VersionedDiffer ==
    SettingsDiffer \/ \E c \in Collections : old.colls[c] # new.colls[c]

\* the run is past the point where it chooses its working version
PastVersionChoice ==
    pc \in {"UpdateSettings", "Stage", "ActivateVCL", "ValidateVersion",
            "ActivateVersion", "Read"}

DeletesBeforeCreates(c) ==
    \A i, j \in CallIdx :
        ( /\ calls[i].coll = c /\ calls[i].op = "Delete"
          /\ calls[j].coll = c /\ calls[j].op = "Create" ) => i < j

-----------------------------------------------------------------------------
(* Properties *)

\* C1: when ValidateVersion answers "not valid", the run has returned an
\* error, has issued no ActivateVersion, and the stored active_version is
\* the one the run started with.
C1_InvalidVersionNotActivated ==
    (\E i \in Issued("ValidateVersion") : calls[i].res = "invalid") =>
        /\ pc = "done"
        /\ result = "err_invalid_configuration"
        /\ Issued("ActivateVersion") = {}
        /\ active_version = old.active_version

C1_Witness ==
    /\ \E i \in Issued("ValidateVersion") : calls[i].res = "invalid"
    /\ pc = "done"
    /\ old.active_version > 0
    /\ Issued("CloneVersion") # {}

\* C2: a step changes the stored active_version only when it is the step of
\* a successful ActivateVersion of the working version, and the value stored
\* is the working version; and whenever an UpdateSettings, Create, Delete,
\* ActivateVCL, ValidateVersion or ActivateVersion call of the run has failed,
\* active_version still has the value the run started with.
C2_ActiveVersionSetOnActivation ==
    /\ [][ active_version' # active_version =>
             /\ pc = "ActivateVersion"
             /\ calls' = Append(calls, Call("ActivateVersion", "", "",
                                            latestVersion, "ok", NoRec))
             /\ backend'.active = latestVersion
             /\ active_version' = latestVersion ]_vars
    /\ []( (\E i \in FailedCalls :
              calls[i].op \in {"UpdateSettings", "Create", "Delete",
                               "ActivateVCL", "ValidateVersion",
                               "ActivateVersion"})
           => active_version = old.active_version )

C2_Witness ==
    /\ active_version # old.active_version
    /\ Len(calls) > 0
    /\ calls[Len(calls)].op = "ActivateVersion"
    /\ calls[Len(calls)].res = "ok"
    /\ active_version = calls[Len(calls)].version

\* C3: when an update in which some collection changed returns success, the
\* backend's active version holds, for every collection, exactly the new
\* desired records.
C3_Converges ==
    ( /\ op = "update"
      /\ pc = "done"
      /\ result = "ok"
      /\ \E c \in Collections : old.colls[c] # new.colls[c] )
    => /\ backend.active \in 1..Len(backend.versions)
       /\ \A c \in Collections :
            backend.versions[backend.active].colls[c] = new.colls[c]

\* C4: when exactly one collection, or default_host or default_ttl, differs
\* and the update part of the run has ended without an error, the run has
\* obtained a working version, issued that collection's Delete and Create
\* calls, validated and activated.
C4_SingleChangeActivates ==
    ( /\ op = "update"
      /\ pc = "Read"
      /\ Cardinality(ChangedAttributes) = 1
      /\ ChangedAttributes # {"name"} )
    => /\ latestVersion > 0
       /\ Issued("ValidateVersion") # {}
       /\ Issued("ActivateVersion") # {}
       /\ \A c \in Collections : old.colls[c] # new.colls[c] => OneCallPerRecord(c)

\* C5: when the old and the new desired state are equal, the run issues no
\* backend call: no Create, Delete, CloneVersion, UpdateService,
\* UpdateSettings, ValidateVersion or ActivateVersion.
C5_NoChangeNoCalls ==
    (op = "update" /\ ChangedAttributes = {}) => calls = <<>>

C5_Witness ==
    /\ op = "update"
    /\ ChangedAttributes = {}
    /\ pc = "done"
    /\ result = "ok"
    /\ \E c \in Collections \ {"domain"} : new.colls[c] # {}
    /\ old.active_version > 0

\* C6: when the new VCL set is non-empty without exactly one main record,
\* create and update return the VCL error at once: no backend call is
\* issued, no id is set and the backend is as it was.
C6_InvalidVCLFailsFirst ==
    VCLInvalid =>
        /\ calls = <<>>
        /\ pc \in {"Create", "Update", "done"}
        /\ pc = "done" => result \in VCLErrors
        /\ id = (IF op = "create" THEN "" ELSE "svc")
        /\ backend.exists = (op = "update")
        /\ latestVersion = 0

C6_Witness ==
    /\ VCLInvalid
    /\ pc = "done"
    /\ result \in VCLErrors
    /\ op = "update"
    /\ old.name # new.name

\* C7: once validateVCLs has returned, it returned no error exactly when the
\* VCL set is empty or has exactly one main record; a non-empty set without
\* a main record and a set with two or more main records give an error.
C7_ValidateVCLs ==
    ValidatedVCLs =>
        /\ (result \notin VCLErrors)
             <=> (new.colls["vcl"] = {} \/ Cardinality(MainVCLs) = 1)
        /\ (new.colls["vcl"] # {} /\ MainVCLs = {}) => result \in VCLErrors
        /\ Cardinality(MainVCLs) >= 2 => result \in VCLErrors

C7_Witness ==
    /\ ValidatedVCLs
    /\ new.colls["vcl"] # {}
    /\ MainVCLs = {}
    /\ result = "err_vcl_no_main"

\* C8: the Create and Delete calls of a run are grouped by collection in the
\* documented order: a call for an earlier collection is never issued after
\* a call for a later one.
C8_StagesInOrder ==
    \A i, j \in StageCalls :
        i < j => DocumentedRank(calls[i].coll) <= DocumentedRank(calls[j].coll)

C8_Witness ==
    \E i, j \in StageCalls :
        /\ i < j
        /\ calls[i].coll = "vcl"
        /\ calls[j].coll = "cache_setting"

\* C9: a Create of a record that names condition X is issued after the
\* Create of condition X of the same run, and a Create of a backend that
\* names healthcheck H after the Create of healthcheck H.
C9_ReferencedCreatedFirst ==
    \A i, j \in Issued("Create") :
        /\ ( calls[i].coll = "condition" /\ calls[j].coll # "condition"
             /\ calls[j].rec.cond = calls[i].name ) => i < j
        /\ ( calls[i].coll = "healthcheck" /\ calls[j].coll = "backend"
             /\ calls[j].rec.hc = calls[i].name ) => i < j

C9_Witness ==
    \E i, j \in Issued("Create") :
        /\ calls[i].coll = "condition"
        /\ calls[j].coll = "backend"
        /\ calls[j].rec.cond = calls[i].name
        /\ i < j

\* C10 as stated: in a run that has ended with no failed call, every stage
\* that was entered has issued its Delete calls before its Create calls, one
\* Delete per toRemove record and one Create per toAdd record.
C10_OneCallPerRecordUnlessCallFails ==
    (pc = "done" /\ FailedCalls = {}) =>
        \A c \in Collections :
            StageEntered(c) => DeletesBeforeCreates(c) /\ OneCallPerRecord(c)

\* C10: in every stage the Delete calls precede the Create calls, and a
\* stage that ran to its end has issued exactly one Delete per toRemove
\* record and exactly one Create per toAdd record.
C10_DeletesThenCreates ==
    \A c \in Collections :
        /\ DeletesBeforeCreates(c)
        /\ StageCompleted(c) => OneCallPerRecord(c)

C10_Witness ==
    \E c \in Collections :
        /\ StageCompleted(c)
        /\ Cardinality(ToRemove(c)) = 2
        /\ Cardinality(ToAdd(c)) = 2
        /\ FailedCalls = {}

\* C11: for every record that keeps its name while a field changes, a stage
\* that ran to its end has issued exactly one Delete with that name and
\* after it exactly one Create with that name that carries the new values
\* of the record's fields (the main flag of a VCL apart, which ActivateVCL
\* sets); and every call of the run is one of the known calls, none of them
\* an update of a record.
C11_ChangeIsDeleteThenCreate ==
    /\ \A i \in CallIdx : calls[i].op \in KnownOps
    /\ \A c \in Collections :
          StageCompleted(c) =>
             \A r \in ToAdd(c) :
                r.name \in ReplacedNames(c) =>
                   /\ Cardinality(DeletesOf(c, r.name)) = 1
                   /\ Cardinality(CreatesOf(c, r.name)) = 1
                   /\ \A i \in DeletesOf(c, r.name), j \in CreatesOf(c, r.name) :
                          /\ i < j
                          /\ [calls[j].rec EXCEPT !.main = r.main] = r

\* C12: when a stage has just computed its differences, remove holds
\* exactly the records that are in old and, as whole values, not in new, and
\* add exactly those in new and not in old; the difference of two equal sets
\* is empty; and no step changes the old or the new sets.
C12_DiffIsSetDifference ==
    /\ []( /\ \A c \in Collections :
                AtStageEntry(c) =>
                   \A r \in Universe(c) :
                      /\ r \in remove <=>
                            (r \in old.colls[c] /\ r \notin new.colls[c])
                      /\ r \in add <=>
                            (r \in new.colls[c] /\ r \notin old.colls[c])
           /\ \A c \in Collections :
                old.colls[c] = new.colls[c] =>
                   /\ Difference(old.colls[c], new.colls[c]) = {}
                   /\ Difference(new.colls[c], old.colls[c]) = {} )
    /\ [][old' = old /\ new' = new]_vars

C12_Witness ==
    \E c \in Collections :
        /\ AtStageEntry(c)
        /\ ReplacedNames(c) # {}
        /\ old.colls[c] \cap new.colls[c] # {}
        /\ remove # {}
        /\ add # {}

\* C13: when a stage has just computed its differences, no record is in
\* both remove and add, and a name is in both exactly when old has a record
\* of that name and new has a different record of that name.
C13_DiffDisjoint ==
    \A c \in Collections :
        AtStageEntry(c) =>
           /\ remove \cap add = {}
           /\ \A n \in Names(Universe(c)) :
                 (n \in Names(remove) /\ n \in Names(add)) <=>
                    \E r \in old.colls[c], q \in new.colls[c] :
                       r.name = n /\ q.name = n /\ r # q

C13_Witness ==
    \E c \in Collections :
        /\ AtStageEntry(c)
        /\ Names(remove) \cap Names(add) # {}
        /\ Cardinality(add) = 2
        /\ Cardinality(remove) = 1

\* C14: when the run started with active_version 0 and a versioned attribute
\* differs, a run that is past the choice of its working version works on
\* version 1 and has issued no CloneVersion.
C14_FirstVersionIsOne ==
    (old.active_version = 0 /\ VersionedDiffer /\ PastVersionChoice) =>
        /\ latestVersion = 1
        /\ Issued("CloneVersion") = {}

\* C15: when the run started with active_version n > 0 and a versioned
\* attribute differs, a run that is past the choice of its working version
\* has issued exactly one CloneVersion, of version n, works on the version
\* that clone made, and issued the clone before every UpdateSettings,
\* Create, Delete, ValidateVersion and ActivateVersion; started from version
\* 3, a run that reaches its final read has last called ActivateVersion(4)
\* and stores active_version 4.
C15_CloneOnceThenWork ==
    /\ (old.active_version > 0 /\ VersionedDiffer /\ PastVersionChoice) =>
          /\ Cardinality(Issued("CloneVersion")) = 1
          /\ \A i \in Issued("CloneVersion") :
                /\ calls[i].version = old.active_version
                /\ calls[i].res = "ok"
                /\ latestVersion = Len(backend.versions)
                /\ latestVersion # old.active_version
                /\ \A j \in CallIdx :
                      calls[j].op \in {"UpdateSettings", "Create", "Delete",
                                       "ValidateVersion", "ActivateVersion"}
                        => i < j
    /\ (old.active_version = 3 /\ VersionedDiffer /\ pc = "Read") =>
          /\ calls # <<>>
          /\ calls[Len(calls)].op = "ActivateVersion"
          /\ calls[Len(calls)].version = 4
          /\ active_version = 4

\* C16: when a CloneVersion call has failed, it is the last backend call of
\* the run, the run has returned the error of that call, and the stored
\* active_version is the one the run started with.
C16_CloneFailureEndsRun ==
    \A i \in Issued("CloneVersion") :
        calls[i].res = "fail" =>
            /\ i = Len(calls)
            /\ pc = "done"
            /\ result = "err_backend"
            /\ active_version = old.active_version

C16_Witness ==
    /\ Len(calls) = 2
    /\ calls[1].op = "UpdateService"
    /\ calls[2].op = "CloneVersion"
    /\ calls[2].res = "fail"
    /\ pc = "done"
    /\ latestVersion = 3

\* C17: in an update whose VCL set is valid and where only the service name
\* differs, every backend call is an UpdateService and there is at most
\* one; once the rename step is over there is exactly one, carrying the new
\* name; and the stored active_version is the one the run started with.
C17_RenameOnly ==
    (op = "update" /\ ChangedAttributes = {"name"} /\ ~VCLInvalid) =>
        /\ \A i \in CallIdx : calls[i].op = "UpdateService"
        /\ Len(calls) <= 1
        /\ pc \in {"needsChange", "Read", "done"} =>
              /\ Len(calls) = 1
              /\ calls[1].name = new.name
        /\ pc \in {"needsChange", "Read"} => calls[1].res = "ok"
        /\ active_version = old.active_version
        /\ latestVersion = 0

C17_Witness ==
    /\ op = "update"
    /\ ChangedAttributes = {"name"}
    /\ pc = "done"
    /\ result = "ok"
    /\ Len(calls) = 1
    /\ calls[1].op = "UpdateService"
    /\ old.active_version = 3
    /\ \E c \in Collections \ {"domain"} : new.colls[c] # {}

\* C18: a run issues at most one UpdateSettings; it issues one only when
\* default_host or default_ttl differs, against its working version, right
\* after it obtained that version (version 1, or the successful clone) and
\* before every Create and Delete; and a run in which default_host or
\* default_ttl differs and that has reached the stages or gone beyond them
\* has issued it.
C18_SettingsOnceBeforeStages ==
    /\ Cardinality(Issued("UpdateSettings")) <= 1
    /\ \A i \in Issued("UpdateSettings") :
          /\ SettingsDiffer
          /\ latestVersion > 0
          /\ calls[i].version = latestVersion
          /\ old.active_version = 0 => latestVersion = 1
          /\ old.active_version > 0 =>
                /\ i > 1
                /\ calls[i - 1].op = "CloneVersion"
                /\ calls[i - 1].res = "ok"
                /\ latestVersion = Len(backend.versions)
          /\ \A j \in StageCalls : i < j
    /\ ( /\ SettingsDiffer
         /\ \/ pc \in {"Stage", "ActivateVCL", "ValidateVersion",
                        "ActivateVersion", "Read"}
            \/ StageCalls # {}
            \/ Issued("ValidateVersion") # {} )
       => \E i \in Issued("UpdateSettings") : calls[i].res = "ok"

C18_Witness ==
    /\ op = "update"
    /\ old.default_ttl # new.default_ttl
    /\ old.default_host = new.default_host
    /\ old.active_version = 3
    /\ \E i \in Issued("UpdateSettings"), j \in StageCalls :
          i < j /\ calls[i].version = 4 /\ calls[j].version = 4

\* the record of toAdd of the VCL stage with name n is a main VCL
AddedMainVCL(n) == \E r \in ToAdd("vcl") : r.name = n /\ r.main

VCLCalls == { i \in CallIdx : calls[i].coll = "vcl" }

\* C19: every ActivateVCL call comes right after the successful Create of
\* the VCL of the same name, and that VCL is a main record of toAdd; the
\* successful Create of a main VCL of toAdd is followed at once by the
\* ActivateVCL of that name; and when the VCL stage ran to its end with
\* nothing to remove and one non-main VCL to add beside the VCLs that stay,
\* its only call is the Create of that VCL.
C19_ActivateVCLAfterMainCreate ==
    /\ \A i \in Issued("ActivateVCL") :
          /\ i > 1
          /\ calls[i - 1].op = "Create"
          /\ calls[i - 1].coll = "vcl"
          /\ calls[i - 1].res = "ok"
          /\ calls[i - 1].name = calls[i].name
          /\ AddedMainVCL(calls[i].name)
    /\ \A i \in VCLCalls :
          ( /\ calls[i].op = "Create"
            /\ calls[i].res = "ok"
            /\ AddedMainVCL(calls[i].name) )
          => IF i = Len(calls) THEN pc = "ActivateVCL"
             ELSE /\ calls[i + 1].op = "ActivateVCL"
                  /\ calls[i + 1].name = calls[i].name
    /\ ( /\ StageCompleted("vcl")
         /\ old.colls["vcl"] # {}
         /\ ToRemove("vcl") = {}
         /\ \E b \in ToAdd("vcl") : ToAdd("vcl") = {b} /\ ~b.main )
       => /\ Cardinality(VCLCalls) = 1
          /\ \A i \in VCLCalls :
                /\ calls[i].op = "Create"
                /\ calls[i].name \in Names(ToAdd("vcl"))

C19_Witness ==
    /\ StageCompleted("vcl")
    /\ \E i \in Issued("ActivateVCL") : calls[i].res = "ok"
    /\ \E i \in VCLCalls :
          /\ calls[i].op = "Create"
          /\ calls[i].res = "ok"
          /\ ~AddedMainVCL(calls[i].name)

\* the errors a run returns for a desired state it rejects locally
ConfigErrors == VCLErrors \cup {"err_config"}

\* C20: when a run has returned a configuration error (the VCL rule, the S3
\* key check, a builder rejecting a record), it has issued no mutating
\* backend call: no CreateService, UpdateService, CloneVersion,
\* UpdateSettings, Create, Delete, ActivateVCL or ActivateVersion.
C20_ConfigErrorBeforeMutation ==
    result \in ConfigErrors =>
        \A i \in CallIdx : calls[i].op \notin MutatingOps

\* a call of the run after which resourceServiceV1Update returns an error:
\* a call that failed, or a ValidateVersion that answered "not valid"
EndingCalls == FailedCalls \cup { i \in CallIdx : calls[i].res = "invalid" }

\* C21: a backend call that failed (or a validation that answered "not
\* valid") is the last backend call of the run, and the run has returned an
\* error: no retry, no later stage, no compensating Create or Delete.
C21_NoCallAfterFailure ==
    \A i \in EndingCalls :
        /\ i = Len(calls)
        /\ pc = "done"
        /\ result \notin {"running", "ok"}

C21_Witness ==
    /\ pc = "done"
    /\ \E i \in FailedCalls :
          /\ calls[i].op = "Delete"
          /\ calls[i].coll = "backend"
          /\ i = Len(calls)
          /\ \E j \in StageCalls : j < i /\ calls[j].res = "ok"
    /\ \E c \in Collections :
          old.colls[c] # new.colls[c] /\ DocumentedRank(c) > DocumentedRank("backend")

\* the operation that the text of an error made by resourceServiceV1Update
\* names: the errors of ValidateVersion and ActivateVersion are wrapped in a
\* message of their own, every other error of the client is handed on as the
\* client returned it, with nothing added
OperationNamed(e) ==
    CASE e \in {"err_checking_validation", "err_invalid_configuration"}
           -> "ValidateVersion"
      [] e = "err_activating" -> "ActivateVersion"
      [] OTHER -> "none"

\* C22: when a run has ended on a failed backend call, the error it
\* returned names the operation of that call, and when it has ended on a
\* validation that answered "not valid", the error is the one that carries
\* the validation message.
C22_ErrorNamesOperation ==
    \A i \in EndingCalls :
        /\ OperationNamed(result) = calls[i].op
        /\ calls[i].res = "invalid" => result = "err_invalid_configuration"

\* the calls that are addressed to a version
VersionedOps ==
    { "UpdateSettings", "Create", "Delete", "ActivateVCL", "ValidateVersion",
      "ActivateVersion" }

VersionedCalls == { i \in CallIdx : calls[i].op \in VersionedOps }

\* C25: a run issues CloneVersion, ValidateVersion and ActivateVersion at
\* most once each; the clone comes before every call addressed to a
\* version; every UpdateSettings, Create, Delete and ActivateVCL comes before
\* the ValidateVersion; and an ActivateVersion comes right after a
\* ValidateVersion that answered "valid".
C25_VersionMovesForward ==
    /\ \A o \in {"CloneVersion", "ValidateVersion", "ActivateVersion"} :
          Cardinality(Issued(o)) <= 1
    /\ \A i \in Issued("CloneVersion"), j \in VersionedCalls : i < j
    /\ \A i \in Issued("ValidateVersion"), j \in CallIdx :
          calls[j].op \in {"CloneVersion", "UpdateSettings", "Create",
                           "Delete", "ActivateVCL"} => j < i
    /\ \A i \in Issued("ActivateVersion") :
          /\ i > 1
          /\ calls[i - 1].op = "ValidateVersion"
          /\ calls[i - 1].res = "valid"

C25_Witness ==
    /\ pc = "done"
    /\ result = "ok"
    /\ Len(calls) >= 5
    /\ calls[1].op = "CloneVersion"
    /\ \E i, j \in StageCalls :
          calls[i].op = "Delete" /\ calls[j].op = "Create" /\ i < j
    /\ calls[Len(calls) - 1].op = "ValidateVersion"
    /\ calls[Len(calls)].op = "ActivateVersion"
    /\ calls[Len(calls)].res = "ok"
    /\ backend.versions[backend.active].locked

\* C28: every call of the run that is addressed to a version carries the
\* working version; when the run started from active_version n > 0, that
\* number is the one a successful CloneVersion(n) of the run made and is not
\* n, and version n holds at every moment of the run, so also after a
\* failure, what it held when the run started.
C28_CallsCarryWorkingVersion ==
    /\ \A i \in VersionedCalls :
          /\ latestVersion > 0
          /\ calls[i].version = latestVersion
    /\ old.active_version > 0 =>
          /\ \A i \in VersionedCalls :
                /\ calls[i].version # old.active_version
                /\ calls[i].version = Len(backend.versions)
                /\ \E j \in Issued("CloneVersion") :
                      /\ j < i
                      /\ calls[j].res = "ok"
                      /\ calls[j].version = old.active_version
          /\ backend.versions[old.active_version]
               = Version(old.colls, old.default_host, old.default_ttl, TRUE)

C28_Witness ==
    /\ old.active_version = 3
    /\ pc = "done"
    /\ FailedCalls # {}
    /\ \E i \in StageCalls : calls[i].res = "ok" /\ calls[i].version = 4
    /\ backend.versions[4].colls # backend.versions[3].colls
    /\ backend.active = 3

\* C29: no Create and no Delete call of a run is for a collection whose old
\* and new record sets are equal, and the run is never inside the stage of
\* such a collection.
C29_UnchangedCollectionUntouched ==
    /\ \A i \in StageCalls :
          old.colls[calls[i].coll] # new.colls[calls[i].coll]
    /\ pc \in {"Stage", "ActivateVCL"} =>
          \E c \in Collections :
             DocumentedRank(c) = stage /\ old.colls[c] # new.colls[c]

C29_Witness ==
    /\ op = "update"
    /\ pc = "done"
    /\ result = "ok"
    /\ StageCalls # {}
    /\ new.colls["domain"] # {}
    /\ old.colls["domain"] = new.colls["domain"]
    /\ \E c \in Collections \ {"domain"} :
          old.colls[c] # {} /\ old.colls[c] = new.colls[c]

\* C30: a run issues at most one UpdateService, before its CloneVersion and
\* before every call addressed to a version; when the name differs, a run
\* that has issued any of those calls has issued a successful rename first;
\* a failed rename is the last call of the run; and once the rename has
\* succeeded the service keeps the new name at the backend, whatever fails
\* later.
C30_RenameFirstNotReverted ==
    /\ Cardinality(Issued("UpdateService")) <= 1
    /\ \A i \in Issued("UpdateService") :
          /\ old.name # new.name
          /\ calls[i].name = new.name
          /\ \A j \in Issued("CloneVersion") \cup VersionedCalls : i < j
          /\ calls[i].res = "fail" =>
                /\ i = Len(calls)
                /\ pc = "done"
                /\ result = "err_backend"
          /\ calls[i].res = "ok" => backend.name = new.name
    /\ ( /\ old.name # new.name
         /\ Issued("CloneVersion") \cup VersionedCalls # {} )
       => \E i \in Issued("UpdateService") : calls[i].res = "ok"

C30_Witness ==
    /\ op = "update"
    /\ old.name # new.name
    /\ pc = "done"
    /\ result \notin {"ok", "err_read"}
    /\ Len(calls) >= 3
    /\ calls[1].op = "UpdateService"
    /\ calls[1].res = "ok"
    /\ calls[2].op = "CloneVersion"
    /\ backend.name = new.name
    /\ backend.active = old.active_version

\* the new desired state holds a record that names a condition or a
\* healthcheck it does not hold
Dangling == \E c \in Collections : \E r \in new.colls[c] : Dangles(r)

\* C27: when the new desired state holds a dangling reference, the run
\* rejects nothing because of it: a configuration error is returned only for
\* an invalid VCL set or for a toAdd record that fails the local check of
\* its stage, every other error only after a backend call that failed or a
\* validation that answered "not valid"; every stage that ran to its end has
\* issued one Delete per toRemove record and one Create per toAdd record;
\* and a run that returned an error has activated nothing.
C27_NoLocalReferenceCheck ==
    Dangling =>
        /\ result \in VCLErrors => VCLInvalid
        /\ result = "err_config" =>
              /\ \E c \in LocalChecked : DocumentedRank(c) = stage
              /\ \E r \in add : ~r.ok
        /\ result \in {"err_backend", "err_checking_validation",
                        "err_invalid_configuration", "err_activating"}
              => EndingCalls # {}
        /\ \A c \in Collections : StageCompleted(c) => OneCallPerRecord(c)
        /\ result \notin {"running", "ok", "err_read"} =>
              \A i \in Issued("ActivateVersion") : calls[i].res = "fail"

C27_Witness ==
    /\ Dangling
    /\ pc = "done"
    /\ result = "err_invalid_configuration"
    /\ Issued("ActivateVersion") = {}
    /\ \E i \in Issued("Create") :
          /\ calls[i].res = "ok"
          /\ calls[i].rec.cond # ""
          /\ calls[i].rec.cond \notin Names(new.colls["condition"])
    /\ \A c \in Collections :
          old.colls[c] # new.colls[c] => StageCompleted(c)

\* the calls that change what a version holds
DraftOps == {"UpdateSettings", "Create", "Delete", "ActivateVCL"}

\* the versions that the earlier run k of the sequence changed
ChangedBy(k) ==
    { past[k].calls[i].version :
        i \in { j \in 1..Len(past[k].calls) :
                  /\ past[k].calls[j].op \in DraftOps
                  /\ past[k].calls[j].res = "ok" } }

\* the run has a working version: version 1, or the one its clone made
HasWorkingVersion ==
    /\ latestVersion > 0
    /\ \/ old.active_version = 0
       \/ \E i \in Issued("CloneVersion") : calls[i].res = "ok"

\* C23: in a run that follows a run that returned an error, the working
\* version is none of the versions the failed run changed, and at the moment
\* the run has obtained it (before its first call addressed to a version)
\* it is a draft that holds what the active version holds.
C23_NextRunOnFreshDraft ==
    \A k \in 1..Len(past) :
        (past[k].result # "ok" /\ HasWorkingVersion) =>
            /\ latestVersion \notin ChangedBy(k)
            /\ (VersionedCalls = {} /\ backend.active > 0) =>
                  backend.versions[latestVersion]
                    = [backend.versions[backend.active] EXCEPT !.locked = FALSE]

\* C24: with runs one after the other, whenever a run has returned, and
\* whenever the next one starts, the active_version that d holds is the
\* number of the version that is active at the backend (0 when none is).
C24_StoredVersionIsBackendActive ==
    pc \in {"done", "Update"} => active_version = backend.active

C24_Witness ==
    /\ Len(past) = 1
    /\ past[1].result \notin {"ok", "err_read"}
    /\ ChangedBy(1) = {4}
    /\ pc = "done"
    /\ result = "ok"
    /\ active_version = 5
    /\ backend.active = 5
    /\ backend.versions[5].locked

\* the two runs of an interleaving: the one that is running and the one
\* that is suspended
BothRuns == {RunContext, otherRun}

\* run r has activated its working version
Activated(r) ==
    \E i \in 1..Len(r.calls) :
        r.calls[i].op = "ActivateVersion" /\ r.calls[i].res = "ok"

\* run r has issued a call addressed to its working version
Working(r) ==
    \E i \in 1..Len(r.calls) : r.calls[i].op \in VersionedOps

ClonesOf(r) ==
    { i \in 1..Len(r.calls) : r.calls[i].op = "CloneVersion" }

\* C26: of two interleaved runs that start from the same active_version,
\* each one that works on a version has issued exactly one CloneVersion of
\* its own, of the version both started from, and the two work on different
\* versions; a run that has activated stores its own working version, which
\* holds its own desired records; and when both have activated, the numbers
\* they store differ while the backend has one of them active, so that one
\* run stores a version that is not the active one.
C26_RunsDoNotExclude ==
    /\ \A r \in BothRuns :
          Working(r) =>
             /\ Cardinality(ClonesOf(r)) = 1
             /\ \A i \in ClonesOf(r) :
                   /\ r.calls[i].res = "ok"
                   /\ r.calls[i].version = old.active_version
    /\ (Working(RunContext) /\ Working(otherRun)) =>
          latestVersion # otherRun.latestVersion
    /\ \A r \in BothRuns :
          Activated(r) =>
             /\ r.active_version = r.latestVersion
             /\ backend.versions[r.latestVersion].locked
             /\ backend.versions[r.latestVersion].colls = r.new.colls
    /\ (Activated(RunContext) /\ Activated(otherRun)) =>
          /\ active_version # otherRun.active_version
          /\ backend.active \in {active_version, otherRun.active_version}

C26_Witness ==
    /\ Activated(RunContext)
    /\ Activated(otherRun)
    /\ pc = "done"
    /\ result = "ok"
    /\ active_version = 4
    /\ backend.active = 5
    /\ new.colls["backend"] # old.colls["backend"]
    /\ backend.versions[backend.active].colls["backend"] = old.colls["backend"]
    /\ backend.versions[backend.active].colls # new.colls

(* C31 *)

\* the records of collection c that the run removes and that name the
\* condition x
RemovedRefs(c, x) == { r \in ToRemove(c) : r.cond = x }

\* the conditions that the run removes without creating one of the same name
RemovedConditions == Names(ToRemove("condition")) \ Names(new.colls["condition"])

\* the Delete calls of the run for record n of collection c
DeleteCalls(c, n) ==
    { i \in Issued("Delete") : calls[i].coll = c /\ calls[i].name = n }

\* the Delete of condition x has succeeded in the working version
ConditionDeleted(x) ==
    \E i \in DeleteCalls("condition", x) : calls[i].res = "ok"

\* C31: when a run removes condition X and a record that references X, every
\* Delete of X comes before every Delete of the referencing record; and from
\* the successful Delete of X until the Delete of the referencing record is
\* issued, the working version holds the referencing record while it holds
\* no condition named X.
C31_ConditionDeletedBeforeReferrer ==
    \A x \in RemovedConditions :
       \A c \in ConditionRefs :
          \A r \in RemovedRefs(c, x) :
             /\ \A i \in DeleteCalls("condition", x) :
                   \A j \in DeleteCalls(c, r.name) : i < j
             /\ (ConditionDeleted(x) /\ DeleteCalls(c, r.name) = {}) =>
                   /\ latestVersion > 0
                   /\ r \in backend.versions[latestVersion].colls[c]
                   /\ x \notin NamesIn(latestVersion, "condition")

C31_Witness ==
    \E x \in RemovedConditions :
       \E c \in ConditionRefs :
          \E r \in RemovedRefs(c, x) :
             /\ ConditionDeleted(x)
             /\ DeleteCalls(c, r.name) = {}
             /\ pc = "Stage"
             /\ StageOrder[stage] = c
             /\ r \in remove
             /\ r \in backend.versions[latestVersion].colls[c]
             /\ x \notin NamesIn(latestVersion, "condition")

(* C32 *)

\* the run has gone past the CreateService call of resourceServiceV1Create
PastCreateService == op = "create" /\ pc \notin {"Create", "CreateService"}

\* C32: in resourceServiceV1Create, CreateService is called at most once, as
\* the first backend call and only with a VCL set that validateVCLs accepts;
\* the resource id is set exactly when CreateService has succeeded, and the
\* update part runs only then; that update works on version 1: no
\* CloneVersion is issued and every call addressed to a version, every
\* Create among them, names version 1.  When CreateService fails the run
\* ends with no id and with CreateService as its only backend call.
C32_CreateThenFirstUpdate ==
    op = "create" =>
       /\ Issued("CreateService") \subseteq {1}
       /\ Issued("CreateService") # {} => ~VCLInvalid
       /\ (pc = "Create" \/ VCLInvalid) => calls = <<>>
       /\ id = (IF 1 \in Issued("CreateService") /\ calls[1].res = "ok"
               THEN "svc" ELSE "")
       /\ (PastCreateService /\ pc # "done") => id = "svc"
       /\ Len(calls) > 1 => (calls[1].op = "CreateService" /\ calls[1].res = "ok")
       /\ (calls # <<>> /\ calls[1].res # "ok") =>
             /\ calls[1].op = "CreateService"
             /\ Len(calls) = 1
             /\ id = ""
             /\ pc = "done"
             /\ result = "err_backend"
       /\ Issued("CloneVersion") = {}
       /\ \A i \in VersionedCalls : calls[i].version = 1
       /\ latestVersion \in {0, 1}

C32_Witness ==
    /\ op = "create"
    /\ pc = "done"
    /\ result = "ok"
    /\ id = "svc"
    /\ calls[1].op = "CreateService"
    /\ Cardinality({ i \in Issued("Create") : calls[i].version = 1 }) >= 2
    /\ Issued("CloneVersion") = {}
    /\ backend.active = 1

C32_FailedWitness ==
    /\ op = "create"
    /\ pc = "done"
    /\ Issued("CreateService") = {1}
    /\ calls[1].res = "fail"
    /\ id = ""

(* C33 *)

\* the calls that are not part of a stage's loops
SingleOps ==
    { "CreateService", "UpdateService", "CloneVersion", "UpdateSettings",
      "ActivateVCL", "ValidateVersion", "ActivateVersion" }

\* the sizes of the toRemove and toAdd sets of all collections together
DiffSize ==
    LET RECURSIVE Sum(_)
        Sum(k) == IF k = 0 THEN 0
                  ELSE Cardinality(ToRemove(StageOrder[k]))
                         + Cardinality(ToAdd(StageOrder[k])) + Sum(k - 1)
    IN  Sum(NumStages)

\* no backend call of the run is issued a second time
NoReissue ==
    \A i, j \in CallIdx :
       (/\ calls[i].op = calls[j].op
        /\ calls[i].coll = calls[j].coll
        /\ calls[i].name = calls[j].name) => i = j

\* the stages issue at most one call per toRemove and toAdd record, every
\* other call is issued at most once, and a run that creates the service
\* does not clone a version
CallsBounded ==
    /\ Cardinality(StageCalls) <= DiffSize
    /\ \A o \in SingleOps : Cardinality(Issued(o)) <= 1
    /\ ~(Issued("CreateService") # {} /\ Issued("CloneVersion") # {})
    /\ \A i \in CallIdx : calls[i].op \in SingleOps \/ i \in StageCalls
    /\ Len(calls) <= DiffSize + Cardinality(SingleOps) - 1

\* the run has returned, with success or with an error
Returned == pc = "done" /\ result # "running"

\* C33: every run terminates: it returns, with the new version activated,
\* with nothing to apply, or with an error; until then it issues no backend
\* call twice, and the number of its calls is at most the sizes of the
\* toRemove and toAdd sets plus six.
C33_RunTerminates ==
    /\ [](NoReissue /\ CallsBounded)
    /\ <>Returned
    /\ [](Returned => []Returned)

C33_Witness ==
    /\ Returned
    /\ result = "ok"
    /\ DiffSize = 2
    /\ Len(calls) = DiffSize + Cardinality(SingleOps) - 1
    /\ Issued("ActivateVersion") # {}

=============================================================================
